---- MODULE Spec2Model ----
(***************************************************************************)
(* Model of the mastopod authentication flow.                              *)
(*                                                                         *)
(*  - backend: the Elysia authPlugin routes POST /login, GET /logout and   *)
(*    POST /signup.  Every request is a process; it moves from one await   *)
(*    of the handler to the next, so that requests interleave exactly at   *)
(*    the provider call and at the database statements.                    *)
(*  - frontend: the pinia auth store (user, isLoggedIn, token) and its     *)
(*    mirror in localStorage.  The store's login() is a /login request of  *)
(*    the backend whose answer the store awaits.                           *)
(***************************************************************************)
EXTENDS Integers, Sequences, FiniteSets, TLC

\* ------------------------------------------------------------------ bounds
\* Number of HTTP requests the backend handles in one behaviour.
MaxReq == 2

Requests == 1..MaxReq

\* ------------------------------------------------------------- input domains
\* webIds the external provider may answer with.
WebIds == {"https://pod.example/alice", "https://pod.example/bob"}
\* usernames of the request bodies.
Usernames == {"alice", "alice2"}
\* provider endpoints of the request bodies.
ProviderEndpoints == {"https://pod.example"}
\* "code" fields an HTTPError body of the provider may carry.
ProviderErrorCodes == {401, 409}

\* ------------------------------------------------------------------ values
\* JavaScript's undefined.
Undefined == [undef |-> TRUE]
\* A JavaScript string literal.
Str(s) == [str |-> s]
EmptyString == Str("")
\* tokens the provider hands out.
ProviderTokens == {Str("ptok")}

VARIABLES
    users,       \* the users table: sequence of rows, in insertion order
    req,         \* req[r]: the state of request r of the backend
    authStore,   \* the pinia auth store of the browser, with its localStorage
    awaiting,    \* requests whose answer a login() of the store awaits
    lastOp,      \* history: how the last operation of the store ended
    stale,       \* history: the awaited requests sent before the last logout()
    api,         \* what the last call of the ApiClient returned to its caller
    loggedOut    \* history: the auth cookies /logout has removed

vars == <<users, req, authStore, awaiting, lastOp, stale, api, loggedOut>>

\* ------------------------------------------------------------------ jwt
\* jwt.sign(payload): a token signed with the backend's secret.
jwtSign(payload) == [jwt |-> payload]

\* jwt.verify(t): the payload (truthy) for a token this backend signed,
\* false for anything else.
jwtVerify(t) == "jwt" \in DOMAIN t

\* JavaScript truthiness of a header / cookie value.
Truthy(v) == v # Undefined /\ v # EmptyString

\* Tokens the backend has handed out so far, in a body or in a cookie.
Issued ==
    {req[r].body.token : r \in {q \in Requests : "token" \in DOMAIN req[q].body}}
    \cup {req[r].cookie : r \in {q \in Requests : jwtVerify(req[q].cookie)}}

\* What a client may present as auth header or auth cookie.
AuthInputs == {Undefined, Str("forged")} \cup Issued

\* ------------------------------------------------------------------ database
\* mutant of SelectByWebId: the lookup finds nothing
SelectByWebId_FindsNothing(w) == <<>>

\* db.select().from(users).where(eq(users.webId, w)): the matching rows,
\* in table order.
SelectByWebId(w) == SelectSeq(users, LAMBDA row : row.webId = w)

\* whether a table holds a row with that webId
HasRow(table, w) == \E i \in 1..Len(table) : table[i].webId = w

\* The users table of the schema: it declares no unique index on webId (user
\* provisioning is "not idempotent against races", and nothing orders or locks
\* concurrent requests), so the database accepts a second row with a webId.
UniqueWebIdConstraint == FALSE
InsertAccepted(row) == UniqueWebIdConstraint => ~HasRow(users, row.webId)

\* db.insert(users).values({name, webId, providerEndpoint}): the new row, with
\* the serial id of the table.
NewRow(name, w, ep) ==
    [id |-> Len(users) + 1, name |-> name, webId |-> w, providerEndpoint |-> ep]

\* ------------------------------------------------------------------ requests
IdleReq ==
    [route |-> "none", pc |-> "idle",
     auth |-> Undefined, cookie |-> Undefined, cookieIn |-> Undefined,
     username |-> "", providerEndpoint |-> "",
     providerResponse |-> Undefined, dbUser |-> <<>>,
     status |-> 0, body |-> Undefined,
     \* history of the request
     nProvider |-> 0, nSelect |-> 0, nInsert |-> 0,
     failed |-> "none", lookupEmpty |-> FALSE, inserted |-> 0,
     usersAtStart |-> <<>>, afterLogout |-> FALSE]

\* the request id the next request gets
NextReq == CHOOSE r \in Requests : req[r].pc = "idle" /\ \A q \in 1..(r-1) : req[q].pc # "idle"
HasFreeReq == \E r \in Requests : req[r].pc = "idle"

\* error(status, message) / return value: the handler is over.
Respond(q, status, body) == [q EXCEPT !.pc = "done", !.status = status, !.body = body]

Init ==
    /\ users = <<>>
    /\ req = [r \in Requests |-> IdleReq]
    /\ authStore = [user |-> Undefined, isLoggedIn |-> FALSE, token |-> EmptyString,
                    localStorage |-> [user |-> Undefined, loggedIn |-> Undefined,
                                      token |-> Undefined]]
    /\ awaiting = {}
    /\ lastOp = "init"
    /\ stale = {}
    /\ api = Undefined
    /\ loggedOut = {}

\* ------------------------------------------------------------------ POST /login
\* mutant of LoginBegin: a token that /logout has removed no longer counts
LoginBegin_Revoked(r, username, ep, auth) ==
    LET q == [req[r] EXCEPT !.route = "login", !.auth = auth,
                            !.username = username, !.providerEndpoint = ep,
                            !.usersAtStart = users, !.afterLogout = (auth \in loggedOut)]
    IN  IF Truthy(auth) /\ jwtVerify(auth) /\ auth \notin loggedOut
        THEN Respond(q, 204, Str("You're already logged in"))
        ELSE [q EXCEPT !.pc = "provider"]

\* The request arrives and the handler checks whether the caller is already
\* logged in (part_000:14-19).
LoginBegin(r, username, ep, auth) ==
    LET q == [req[r] EXCEPT !.route = "login", !.auth = auth,
                            !.username = username, !.providerEndpoint = ep,
                            !.usersAtStart = users, !.afterLogout = (auth \in loggedOut)]
    IN  IF Truthy(auth) /\ jwtVerify(auth)
        THEN Respond(q, 204, Str("You're already logged in"))
        ELSE [q EXCEPT !.pc = "provider"]

LoginStart(username, ep, auth) ==
    /\ HasFreeReq
    /\ req' = [req EXCEPT ![NextReq] = LoginBegin(NextReq, username, ep, auth)]
    /\ UNCHANGED <<users, authStore, awaiting, lastOp, stale, api, loggedOut>>

\* mutant of LoginProviderStep: a provider call that throws is tried again
LoginProviderStep_Retry(q, outcome) ==
    LET c == [q EXCEPT !.nProvider = @ + 1]
    IN  IF outcome = Str("throw")
        THEN c
        ELSE IF outcome.token = Undefined
        THEN Respond([c EXCEPT !.failed = "notoken", !.providerResponse = outcome], 400,
                     Str("Endpoint did not return a token"))
        ELSE [c EXCEPT !.providerResponse = outcome, !.pc = "select"]

\* await ActivityPod.login(...) and the check of the token (part_000:23-34).
\* outcome: "throw", or the provider's response.
LoginProviderStep(q, outcome) ==
    LET c == [q EXCEPT !.nProvider = @ + 1]
    IN  IF outcome = Str("throw")
        THEN Respond([c EXCEPT !.failed = "provider"], 400,
                     Str("Endpoint didn't respond with a 200 status code"))
        ELSE IF outcome.token = Undefined
        THEN Respond([c EXCEPT !.failed = "notoken", !.providerResponse = outcome], 400,
                     Str("Endpoint did not return a token"))
        ELSE [c EXCEPT !.providerResponse = outcome, !.pc = "select"]

\* a response without token is taken to carry no webId either
ProviderOutcomes ==
    {Str("throw"), [token |-> Undefined, webId |-> Undefined]}
    \cup [token : ProviderTokens, webId : WebIds]

LoginProvider(r) ==
    /\ req[r].route = "login" /\ req[r].pc = "provider"
    /\ \E outcome \in ProviderOutcomes :
          req' = [req EXCEPT ![r] = LoginProviderStep(req[r], outcome)]
    /\ UNCHANGED <<users, authStore, awaiting, lastOp, stale, api, loggedOut>>

\* mutant of LoginSelectStep: the insert no longer depends on the lookup
LoginSelectStep_AlwaysInsert(q, ok) ==
    LET c == [q EXCEPT !.nSelect = @ + 1]
        found == SelectByWebId(q.providerResponse.webId)
    IN  IF ~ok
        THEN Respond([c EXCEPT !.failed = "db"], 500, Str("Error while checking user"))
        ELSE [c EXCEPT !.dbUser = found, !.lookupEmpty = (Len(found) = 0), !.pc = "insert"]

\* dbUser = await db.select()... (part_000:38-39); ok = FALSE: the statement throws.
LoginSelectStep(q, ok) ==
    LET c == [q EXCEPT !.nSelect = @ + 1]
        found == SelectByWebId(q.providerResponse.webId)
    IN  IF ~ok
        THEN Respond([c EXCEPT !.failed = "db"], 500, Str("Error while checking user"))
        ELSE [c EXCEPT !.dbUser = found, !.lookupEmpty = (Len(found) = 0),
                       !.pc = IF Len(found) = 0 THEN "insert" ELSE "sign"]

LoginSelect(r) ==
    /\ req[r].route = "login" /\ req[r].pc = "select"
    /\ \E ok \in BOOLEAN : req' = [req EXCEPT ![r] = LoginSelectStep(req[r], ok)]
    /\ UNCHANGED <<users, authStore, awaiting, lastOp, stale, api, loggedOut>>

\* mutant of LoginInsert: a failed insert is not caught and the token is signed
LoginInsert_IgnoreFailure(r) ==
    /\ req[r].route = "login" /\ req[r].pc = "insert"
    /\ LET c == [req[r] EXCEPT !.nInsert = @ + 1]
           row == NewRow(c.username, c.providerResponse.webId, c.providerEndpoint)
       IN  \/ /\ InsertAccepted(row)
              /\ users' = Append(users, row)
              /\ req' = [req EXCEPT ![r] = [c EXCEPT !.dbUser = <<row>>, !.inserted = row.id,
                                                     !.pc = "sign"]]
           \/ /\ req' = [req EXCEPT ![r] = [c EXCEPT !.dbUser = <<row>>, !.pc = "sign"]]
              /\ UNCHANGED users
    /\ UNCHANGED <<authStore, awaiting, lastOp, stale, api, loggedOut>>

\* dbUser = await db.insert(users).values(...).returning() (part_000:41-48).
LoginInsert(r) ==
    /\ req[r].route = "login" /\ req[r].pc = "insert"
    /\ LET c == [req[r] EXCEPT !.nInsert = @ + 1]
           row == NewRow(c.username, c.providerResponse.webId, c.providerEndpoint)
       IN  \/ /\ InsertAccepted(row)
              /\ users' = Append(users, row)
              /\ req' = [req EXCEPT ![r] = [c EXCEPT !.dbUser = <<row>>, !.inserted = row.id,
                                                     !.pc = "sign"]]
           \/ /\ req' = [req EXCEPT ![r] = Respond([c EXCEPT !.failed = "db"], 500,
                                                   Str("Error while checking user"))]
              /\ UNCHANGED users
    /\ UNCHANGED <<authStore, awaiting, lastOp, stale, api, loggedOut>>

\* token = await jwt.sign(...); return {token, user: dbUser[0]} (part_000:54-60).
LoginSignStep(q) ==
    Respond(q, 200,
            [token |-> jwtSign([webId |-> q.providerResponse.webId,
                                token |-> q.providerResponse.token]),
             user |-> q.dbUser[1]])

LoginSign(r) ==
    /\ req[r].route = "login" /\ req[r].pc = "sign"
    /\ req' = [req EXCEPT ![r] = LoginSignStep(req[r])]
    /\ UNCHANGED <<users, authStore, awaiting, lastOp, stale, api, loggedOut>>

\* ------------------------------------------------------------------ GET /logout
\* auth.remove(); return 'You have been logged out' (part_000:76-79).
LogoutHandle(q, cookie) ==
    Respond([q EXCEPT !.route = "logout", !.cookieIn = cookie, !.cookie = Undefined,
                      !.usersAtStart = users],
            200, Str("You have been logged out"))

Logout(cookie) ==
    /\ HasFreeReq
    /\ req' = [req EXCEPT ![NextReq] = LogoutHandle(req[NextReq], cookie)]
    /\ loggedOut' = loggedOut \cup {cookie}
    /\ UNCHANGED <<users, authStore, awaiting, lastOp, stale, api>>

\* GET /logout as above, for a backend that keeps no record of the request.
SessionLogout(cookie) ==
    /\ LogoutHandle(IdleReq, cookie).cookie = Undefined
    /\ loggedOut' = loggedOut \cup {cookie}
    /\ UNCHANGED <<users, req, authStore, awaiting, lastOp, stale, api>>

\* ------------------------------------------------------------------ POST /signup
\* mutant of SignupBegin: the auth cookie is not looked at
SignupBegin_NoCheck(r, username, ep, cookie) ==
    [req[r] EXCEPT !.route = "signup", !.cookie = cookie, !.cookieIn = cookie,
                   !.username = username, !.providerEndpoint = ep,
                   !.usersAtStart = users, !.afterLogout = (cookie \in loggedOut),
                   !.pc = "provider"]

\* The request arrives and the handler checks the auth cookie (part_000:86-91).
SignupBegin(r, username, ep, cookie) ==
    LET q == [req[r] EXCEPT !.route = "signup", !.cookie = cookie, !.cookieIn = cookie,
                            !.username = username, !.providerEndpoint = ep,
                            !.usersAtStart = users, !.afterLogout = (cookie \in loggedOut)]
    IN  IF Truthy(cookie) /\ jwtVerify(cookie)
        THEN Respond(q, 200, Str("You're already logged in"))
        ELSE [q EXCEPT !.pc = "provider"]

SignupStart(username, ep, cookie) ==
    /\ HasFreeReq
    /\ req' = [req EXCEPT ![NextReq] = SignupBegin(NextReq, username, ep, cookie)]
    /\ UNCHANGED <<users, authStore, awaiting, lastOp, stale, api, loggedOut>>

\* await ActivityPod.signup(...), the check of the token, and the outer catch
\* (part_000:94-98, 123-131).  outcome: "throw" (an error that is no HTTPError),
\* [httpError |-> code] (an HTTPError whose JSON body carries that code), or the
\* provider's response.
SignupProviderStep(q, outcome) ==
    LET c == [q EXCEPT !.nProvider = @ + 1]
    IN  IF outcome = Str("throw")
        THEN Respond([c EXCEPT !.failed = "provider"], 400, Str("Error with the provider"))
        ELSE IF "httpError" \in DOMAIN outcome
        THEN Respond([c EXCEPT !.failed = "provider"], outcome.httpError,
                     Str("errorJson.message"))
        ELSE IF outcome.token = Undefined
        THEN Respond([c EXCEPT !.failed = "notoken", !.providerResponse = outcome], 400,
                     Str("Provider did not return a token"))
        ELSE [c EXCEPT !.providerResponse = outcome, !.pc = "select"]

SignupOutcomes == ProviderOutcomes \cup [httpError : ProviderErrorCodes]

SignupProvider(r) ==
    /\ req[r].route = "signup" /\ req[r].pc = "provider"
    /\ \E outcome \in SignupOutcomes :
          req' = [req EXCEPT ![r] = SignupProviderStep(req[r], outcome)]
    /\ UNCHANGED <<users, authStore, awaiting, lastOp, stale, api, loggedOut>>

\* mutant of SignupSelectStep: the cookie is set before the database is asked
SignupSelectStep_CookieFirst(q, ok) ==
    LET c == [q EXCEPT !.nSelect = @ + 1,
                       !.cookie = jwtSign([webId |-> q.providerResponse.webId])]
        user == SelectByWebId(q.providerResponse.webId)
    IN  IF ~ok
        THEN Respond([c EXCEPT !.failed = "db"], 500, Str("Error while checking user"))
        ELSE [c EXCEPT !.dbUser = user, !.lookupEmpty = (Len(user) = 0),
                       !.pc = IF Len(user) = 0 THEN "insert" ELSE "sign"]

\* user = await db.select()... (part_000:101-102); ok = FALSE: the statement throws
\* and the inner catch answers 500 (part_000:110-113).
SignupSelectStep(q, ok) ==
    LET c == [q EXCEPT !.nSelect = @ + 1]
        user == SelectByWebId(q.providerResponse.webId)
    IN  IF ~ok
        THEN Respond([c EXCEPT !.failed = "db"], 500, Str("Error while checking user"))
        ELSE [c EXCEPT !.dbUser = user, !.lookupEmpty = (Len(user) = 0),
                       !.pc = IF Len(user) = 0 THEN "insert" ELSE "sign"]

SignupSelect(r) ==
    /\ req[r].route = "signup" /\ req[r].pc = "select"
    /\ \E ok \in BOOLEAN : req' = [req EXCEPT ![r] = SignupSelectStep(req[r], ok)]
    /\ UNCHANGED <<users, authStore, awaiting, lastOp, stale, api, loggedOut>>

\* await db.insert(users).values(...) (part_000:104-108).
SignupInsert(r) ==
    /\ req[r].route = "signup" /\ req[r].pc = "insert"
    /\ LET c == [req[r] EXCEPT !.nInsert = @ + 1]
           row == NewRow(c.username, c.providerResponse.webId, c.providerEndpoint)
       IN  \/ /\ InsertAccepted(row)
              /\ users' = Append(users, row)
              /\ req' = [req EXCEPT ![r] = [c EXCEPT !.inserted = row.id, !.pc = "sign"]]
           \/ /\ req' = [req EXCEPT ![r] = Respond([c EXCEPT !.failed = "db"], 500,
                                                   Str("Error while checking user"))]
              /\ UNCHANGED users
    /\ UNCHANGED <<authStore, awaiting, lastOp, stale, api, loggedOut>>

\* auth.set({value: await jwt.sign({webId}), ...}); return 'Successfully signed up'
\* (part_000:114-121).
SignupSignStep(q) ==
    Respond([q EXCEPT !.cookie = jwtSign([webId |-> q.providerResponse.webId])],
            200, Str("Successfully signed up"))

SignupSign(r) ==
    /\ req[r].route = "signup" /\ req[r].pc = "sign"
    /\ req' = [req EXCEPT ![r] = SignupSignStep(req[r])]
    /\ UNCHANGED <<users, authStore, awaiting, lastOp, stale, api, loggedOut>>

\* ------------------------------------------------------------------ auth store
\* JSON.stringify(v): the JSON text of an object, undefined for undefined.
JSONstringify(v) == IF v = Undefined THEN Undefined ELSE [json |-> v]

\* localStorage.setItem(key, value): the value is stored as a string;
\* undefined becomes the string "undefined".
setItem(ls, key, value) ==
    [ls EXCEPT ![key] = IF value = Undefined THEN Str("undefined") ELSE value]

\* Boolean.prototype.toString
toString(b) == IF b THEN Str("true") ELSE Str("false")

\* mutant of setUser: the user is not written to localStorage
setUser_NotStored(s, newValue) == [s EXCEPT !.user = newValue]

\* setUser (part_001:18-21)
setUser(s, newValue) ==
    [s EXCEPT !.user = newValue,
              !.localStorage = setItem(s.localStorage, "user", JSONstringify(newValue))]

\* setLoggedIn (part_001:23-26)
setLoggedIn(s, newValue) ==
    [s EXCEPT !.isLoggedIn = newValue,
              !.localStorage = setItem(s.localStorage, "loggedIn", toString(newValue))]

\* setToken (part_001:28-31)
setToken(s, newValue) ==
    [s EXCEPT !.token = newValue,
              !.localStorage = setItem(s.localStorage, "token", newValue)]

\* login(): client.login.post(...) is sent (part_001:59-61); the treaty client
\* sets no auth header.
StoreLogin(username, ep) ==
    /\ HasFreeReq
    /\ req' = [req EXCEPT ![NextReq] = LoginBegin(NextReq, username, ep, Undefined)]
    /\ awaiting' = awaiting \cup {NextReq}
    /\ UNCHANGED <<users, authStore, lastOp, stale, api, loggedOut>>

\* the body of login() after the await, for an answer with that status and data
\* (part_001:62-69).
loginAnswer(s, status, response) ==
    IF status = 200
    THEN setUser(setToken(setLoggedIn(s, TRUE), response.token), response.user)
    ELSE s

\* login(): the answer of the backend arrives.
StoreLoginResponse(r) ==
    /\ r \in awaiting /\ req[r].pc = "done"
    /\ authStore' = loginAnswer(authStore, req[r].status, req[r].body)
    /\ awaiting' = awaiting \ {r}
    /\ lastOp' = IF req[r].status = 200 THEN "login200" ELSE "loginNon200"
    /\ stale' = stale \ {r}
    /\ UNCHANGED <<users, req, api, loggedOut>>

\* login(): the await rejects (no answer arrives) and the catch logs the error
\* (part_001:70-72).
StoreLoginThrow(r) ==
    /\ r \in awaiting
    /\ awaiting' = awaiting \ {r}
    /\ lastOp' = "loginThrow"
    /\ stale' = stale \ {r}
    /\ UNCHANGED <<users, req, authStore, api, loggedOut>>

\* mutant of logout: the token is kept
logout_KeepsToken(s) == setUser(setLoggedIn(s, FALSE), Undefined)

\* logout() (part_001:85-90)
logout(s) == setUser(setToken(setLoggedIn(s, FALSE), EmptyString), Undefined)

StoreLogout ==
    /\ authStore' = logout(authStore)
    /\ lastOp' = "logout"
    /\ stale' = awaiting
    /\ UNCHANGED <<users, req, awaiting, api, loggedOut>>

\* JSON.parse of a localStorage entry written by the setters
JSONparse(text) ==
    IF "json" \in DOMAIN text THEN text.json
    ELSE IF text = Str("true") THEN TRUE
    ELSE FALSE

\* mutant of initStore: the token is not read back
initStore_NoToken(ls) ==
    LET localUser == ls.user
        localLoggedIn == ls.loggedIn
    IN  [user |-> IF Truthy(localUser) /\ localUser # Str("undefined")
                  THEN JSONparse(localUser) ELSE Undefined,
         isLoggedIn |-> IF Truthy(localLoggedIn) THEN JSONparse(localLoggedIn) ELSE FALSE,
         token |-> EmptyString,
         localStorage |-> ls]

\* initStore (part_001:37-52), run on the default state of a new store
\* (part_001:9-11) with the localStorage the browser kept.
initStore(ls) ==
    LET localUser == ls.user
        localLoggedIn == ls.loggedIn
        localToken == ls.token
    IN  [user |-> IF Truthy(localUser) /\ localUser # Str("undefined")
                  THEN JSONparse(localUser) ELSE Undefined,
         isLoggedIn |-> IF Truthy(localLoggedIn) THEN JSONparse(localLoggedIn) ELSE FALSE,
         token |-> IF Truthy(localToken) /\ localToken # EmptyString
                   THEN localToken ELSE EmptyString,
         localStorage |-> ls]

\* The page is loaded again: useAuthStore is set up anew and runs initStore
\* (part_001:92); the calls of the old page are gone.
StoreReload ==
    /\ authStore' = initStore(authStore.localStorage)
    /\ awaiting' = {}
    /\ stale' = {}
    /\ lastOp' = "init"
    /\ api' = Undefined
    /\ UNCHANGED <<users, req, loggedOut>>

\* ------------------------------------------------------------------ ApiClient
\* HTTP statuses for which ky throws an HTTPError
HttpErrorStatuses == {400, 401, 404, 500}
\* keys of ProviderSignUpErrors and of ProviderSignInErrors (api.ts:58, 75)
SignUpErrorKeys == {"signup.exists"}
SignInErrorKeys == {"signin.wrongPassword"}
\* response texts of an HTTPError
ErrorTexts == SignUpErrorKeys \cup SignInErrorKeys
\* what a request of the ApiClient may throw: an HTTPError of ky with the status
\* and the text of the response, or any other error
Thrown == [status : HttpErrorStatuses, text : ErrorTexts] \cup {Str("TypeError")}
HTTPError(e) == "status" \in DOMAIN e

\* mutant of handleError: a 401 does not log the store out
handleError_NoLogout(s, e) ==
    IF HTTPError(e)
    THEN IF e.status = 500
         THEN IF e.text \in SignUpErrorKeys
              THEN [ret |-> [data |-> Str(e.text), status |-> 400], store |-> s]
              ELSE [ret |-> [data |-> Str("providerSignUpDefault"), status |-> 400],
                    store |-> s]
         ELSE IF e.status = 401
         THEN [ret |-> [data |-> Str("unauthorized"), status |-> 401], store |-> s]
         ELSE IF e.status = 400 /\ e.text \in SignInErrorKeys
         THEN [ret |-> [data |-> Str(e.text), status |-> 400], store |-> s]
         ELSE [ret |-> [data |-> Str("default"), status |-> e.status], store |-> s]
    ELSE [ret |-> [data |-> Str("default"), status |-> 500], store |-> s]

\* handleError (api.ts:54-93): the value returned and the auth store after it
handleError(s, e) ==
    IF HTTPError(e)
    THEN IF e.status = 500
         THEN IF e.text \in SignUpErrorKeys
              THEN [ret |-> [data |-> Str(e.text), status |-> 400], store |-> s]
              ELSE [ret |-> [data |-> Str("providerSignUpDefault"), status |-> 400],
                    store |-> s]
         ELSE IF e.status = 401
         THEN [ret |-> [data |-> Str("unauthorized"), status |-> 401], store |-> logout(s)]
         ELSE IF e.status = 400 /\ e.text \in SignInErrorKeys
         THEN [ret |-> [data |-> Str(e.text), status |-> 400], store |-> s]
         ELSE [ret |-> [data |-> Str("default"), status |-> e.status], store |-> s]
    ELSE [ret |-> [data |-> Str("default"), status |-> 500], store |-> s]

\* The try / catch the four requests share: the request is answered with 200,
\* or it throws and handleError makes the return value.
apiRequest(s, outcome) ==
    IF outcome = Str("ok")
    THEN [ret |-> [data |-> Str("response.json()"), status |-> 200], store |-> s]
    ELSE handleError(s, outcome)

\* signup (api.ts:101-111)
signup(s, outcome) == apiRequest(s, outcome)
\* signin (api.ts:118-128)
signin(s, outcome) == apiRequest(s, outcome)
\* fetchPosts (api.ts:136-146)
fetchPosts(s, outcome) == apiRequest(s, outcome)
\* createPost (api.ts:153-163)
createPost(s, outcome) == apiRequest(s, outcome)

ApiMethods == {"signup", "signin", "fetchPosts", "createPost"}

\* A request of the ApiClient is sent; its answer is awaited.
ApiSend(method) ==
    /\ api = Undefined \/ "ret" \in DOMAIN api
    /\ api' = [pending |-> method]
    /\ UNCHANGED <<users, req, authStore, awaiting, lastOp, stale, loggedOut>>

\* The request is answered, or throws, and the call returns to its caller.
ApiAnswer(outcome) ==
    /\ api # Undefined /\ "pending" \in DOMAIN api
    /\ LET method == api.pending
           res == CASE method = "signup" -> signup(authStore, outcome)
                    [] method = "signin" -> signin(authStore, outcome)
                    [] method = "fetchPosts" -> fetchPosts(authStore, outcome)
                    [] method = "createPost" -> createPost(authStore, outcome)
           loggedOutNow == HTTPError(outcome) /\ outcome.status = 401
       IN  /\ api' = [thrown |-> IF HTTPError(outcome) THEN Str("HTTPError") ELSE outcome,
                      responseStatus |-> IF HTTPError(outcome) THEN outcome.status ELSE 0,
                      ret |-> res.ret, wasLoggedIn |-> authStore.isLoggedIn]
           /\ authStore' = res.store
           /\ lastOp' = IF loggedOutNow THEN "logout" ELSE lastOp
           /\ stale' = IF loggedOutNow THEN awaiting ELSE stale
    /\ UNCHANGED <<users, req, awaiting, loggedOut>>

\* ------------------------------------------------------------------ system
\* The backend, serving the requests of any clients.
Next ==
    \/ \E u \in Usernames, ep \in ProviderEndpoints, a \in AuthInputs : LoginStart(u, ep, a)
    \/ \E r \in Requests : LoginProvider(r)
    \/ \E r \in Requests : LoginSelect(r)
    \/ \E r \in Requests : LoginInsert(r)
    \/ \E r \in Requests : LoginSign(r)
    \/ \E c \in AuthInputs : Logout(c)
    \/ \E u \in Usernames, ep \in ProviderEndpoints, c \in AuthInputs : SignupStart(u, ep, c)
    \/ \E r \in Requests : SignupProvider(r)
    \/ \E r \in Requests : SignupSelect(r)
    \/ \E r \in Requests : SignupInsert(r)
    \/ \E r \in Requests : SignupSign(r)

Spec == Init /\ [][Next]_vars

\* The backend handling one request after the other: a request arrives only
\* when no other one is being handled.
Quiet == \A r \in Requests : req[r].pc \in {"idle", "done"}

SeqNext ==
    \/ \E u \in Usernames, ep \in ProviderEndpoints, a \in AuthInputs :
          Quiet /\ LoginStart(u, ep, a)
    \/ \E r \in Requests : LoginProvider(r)
    \/ \E r \in Requests : LoginSelect(r)
    \/ \E r \in Requests : LoginInsert(r)
    \/ \E r \in Requests : LoginSign(r)
    \/ \E c \in AuthInputs : Quiet /\ Logout(c)
    \/ \E u \in Usernames, ep \in ProviderEndpoints, c \in AuthInputs :
          Quiet /\ SignupStart(u, ep, c)
    \/ \E r \in Requests : SignupProvider(r)
    \/ \E r \in Requests : SignupSelect(r)
    \/ \E r \in Requests : SignupInsert(r)
    \/ \E r \in Requests : SignupSign(r)

SeqSpec == Init /\ [][SeqNext]_vars

\* The auth store of one browser and the backend serving its login() calls.
StoreNext ==
    \/ \E u \in Usernames, ep \in ProviderEndpoints : StoreLogin(u, ep)
    \/ \E r \in Requests : LoginProvider(r)
    \/ \E r \in Requests : LoginSelect(r)
    \/ \E r \in Requests : LoginInsert(r)
    \/ \E r \in Requests : LoginSign(r)
    \/ \E r \in Requests : StoreLoginResponse(r)
    \/ \E r \in Requests : StoreLoginThrow(r)
    \/ StoreLogout

StoreSpec == Init /\ [][StoreNext]_vars

\* The browser: the auth store used one operation after the other, the ApiClient,
\* and the backend serving the store's login() calls.
ApiNext ==
    \/ \E u \in Usernames, ep \in ProviderEndpoints :
          Quiet /\ awaiting = {} /\ StoreLogin(u, ep)
    \/ \E r \in Requests : LoginProvider(r)
    \/ \E r \in Requests : LoginSelect(r)
    \/ \E r \in Requests : LoginInsert(r)
    \/ \E r \in Requests : LoginSign(r)
    \/ \E r \in Requests : StoreLoginResponse(r)
    \/ \E r \in Requests : StoreLoginThrow(r)
    \/ StoreLogout
    \/ StoreReload
    \/ \E m \in ApiMethods : ApiSend(m)
    \/ \E o \in Thrown \cup {Str("ok")} : ApiAnswer(o)

ApiSpec == Init /\ [][ApiNext]_vars

\* The backend handling one request after the other, among them /logout
\* requests of clients that hold a session token; the bound on the requests
\* counts the /login and /signup requests.
SessionNext ==
    \/ \E u \in Usernames, ep \in ProviderEndpoints, a \in AuthInputs :
          Quiet /\ LoginStart(u, ep, a)
    \/ \E r \in Requests : LoginProvider(r)
    \/ \E r \in Requests : LoginSelect(r)
    \/ \E r \in Requests : LoginInsert(r)
    \/ \E r \in Requests : LoginSign(r)
    \/ \E c \in Issued : Quiet /\ SessionLogout(c)
    \/ \E u \in Usernames, ep \in ProviderEndpoints, c \in AuthInputs :
          Quiet /\ SignupStart(u, ep, c)
    \/ \E r \in Requests : SignupProvider(r)
    \/ \E r \in Requests : SignupSelect(r)
    \/ \E r \in Requests : SignupInsert(r)
    \/ \E r \in Requests : SignupSign(r)

SessionSpec == Init /\ [][SessionNext]_vars

\* ------------------------------------------------------------------ properties
Done(r) == req[r].pc = "done"
IsLogin(r) == req[r].route = "login"
IsSignup(r) == req[r].route = "signup"
\* the request answered 200 after the provider accepted the credentials
Succeeded(r) == Done(r) /\ req[r].status = 200 /\ req[r].providerResponse # Undefined
\* r is the request that arrived last
Last(r) == r = MaxReq \/ req[r + 1].pc = "idle"
\* the provider call of r is over and it threw or answered without token
ProviderFailed(r) ==
    /\ req[r].nProvider >= 1
    /\ \/ req[r].providerResponse = Undefined
       \/ req[r].providerResponse.token = Undefined
\* the caller of r presented a valid session token where the route looks for it
AlreadyLoggedIn(r) ==
    \/ IsLogin(r) /\ Truthy(req[r].auth) /\ jwtVerify(req[r].auth)
    \/ IsSignup(r) /\ Truthy(req[r].cookieIn) /\ jwtVerify(req[r].cookieIn)

C2_LoginProvisionsUser ==
    \A r \in Requests : IsLogin(r) =>
        /\ req[r].nInsert >= 1 => req[r].lookupEmpty
        /\ Succeeded(r) =>
              /\ \E i \in 1..Len(users) :
                    /\ users[i] = req[r].body.user
                    /\ users[i].webId = req[r].providerResponse.webId
              /\ req[r].inserted # 0 <=> req[r].lookupEmpty
              /\ req[r].inserted # 0 => req[r].body.user.id = req[r].inserted

C2_Witness ==
    \E r1, r2 \in Requests :
        /\ IsLogin(r1) /\ Succeeded(r1) /\ req[r1].lookupEmpty
        /\ IsLogin(r2) /\ Succeeded(r2) /\ ~req[r2].lookupEmpty

\* C3: with requests handled one after the other, a successful /login or /signup
\* for a webId that already has a row leaves the users table as it was when the
\* request arrived, and two successful /login for one webId return the same row.
C3_IdempotentProvisioning ==
    /\ \A r \in Requests :
          (/\ Last(r) /\ Succeeded(r)
           /\ HasRow(req[r].usersAtStart, req[r].providerResponse.webId))
          => users = req[r].usersAtStart
    /\ \A r1, r2 \in Requests :
          (/\ IsLogin(r1) /\ Succeeded(r1) /\ IsLogin(r2) /\ Succeeded(r2)
           /\ req[r1].providerResponse.webId = req[r2].providerResponse.webId)
          => req[r1].body.user = req[r2].body.user

C3_Witness ==
    \E r1, r2 \in Requests :
        /\ r1 < r2 /\ Last(r2)
        /\ IsLogin(r1) /\ Succeeded(r1) /\ IsLogin(r2) /\ Succeeded(r2)
        /\ req[r1].providerResponse.webId = req[r2].providerResponse.webId
        /\ req[r1].username # req[r2].username
        /\ HasRow(req[r2].usersAtStart, req[r2].providerResponse.webId)

\* C4: every answer of /login and /signup other than the 200 success has status
\* 400, 401 or 500.
C4_ErrorStatuses ==
    \A r \in Requests :
        (Done(r) /\ (IsLogin(r) \/ IsSignup(r)) /\ req[r].status # 200)
        => req[r].status \in {400, 401, 500}

\* C5: after a /login answered 200 the auth cookie of the request holds a signed
\* session token.
C5_LoginSetsCookie ==
    \A r \in Requests :
        (IsLogin(r) /\ Done(r) /\ req[r].status = 200) => jwtVerify(req[r].cookie)

\* C6: after a login() that received 200 and after a logout() the localStorage
\* entries user, loggedIn and token encode the user, isLoggedIn and token of the
\* store; a login() that received another status or threw changes neither.
Mirrored(s) ==
    /\ s.localStorage.user =
          (IF s.user = Undefined THEN Str("undefined") ELSE [json |-> s.user])
    /\ s.localStorage.loggedIn = (IF s.isLoggedIn THEN Str("true") ELSE Str("false"))
    /\ s.localStorage.token = s.token

C6_StoreMirrorsSession ==
    /\ [](lastOp \in {"login200", "logout"} => Mirrored(authStore))
    /\ [][(awaiting' # awaiting /\ lastOp' \in {"loginNon200", "loginThrow"})
            => authStore' = authStore]_vars

C6_Witness ==
    /\ lastOp = "loginNon200"
    /\ authStore.isLoggedIn /\ authStore.user # Undefined /\ jwtVerify(authStore.token)
    /\ Mirrored(authStore)

\* C7: a request calls the provider at most once, looks the user up at most once
\* and inserts at most once; once the provider call or a database statement has
\* failed the request is over, with an error status.
C7_NoRetries ==
    \A r \in Requests :
        /\ req[r].nProvider <= 1 /\ req[r].nSelect <= 1 /\ req[r].nInsert <= 1
        /\ req[r].failed # "none" => Done(r) /\ req[r].status # 200
        /\ ProviderFailed(r) => Done(r) /\ req[r].status # 200

C7_Witness ==
    \E r1, r2 \in Requests :
        /\ req[r1].failed = "db" /\ req[r1].nInsert = 1 /\ Done(r1)
        /\ req[r2].failed = "provider" /\ Done(r2)

\* C8: /login signs and returns a session token only when the provider call
\* succeeded with a token and the lookup (and the insert, if needed) went through
\* without error; when the token is signed a row with that webId is in the table.
C8_SignAfterAllSteps ==
    \A r \in Requests :
        (IsLogin(r) /\ (req[r].pc = "sign" \/ "token" \in DOMAIN req[r].body)) =>
            /\ req[r].nProvider = 1
            /\ req[r].providerResponse # Undefined
            /\ req[r].providerResponse.token # Undefined
            /\ req[r].nSelect = 1
            /\ req[r].lookupEmpty => req[r].nInsert = 1
            /\ req[r].failed = "none"
            /\ HasRow(users, req[r].providerResponse.webId)

C8_Witness ==
    \E r \in Requests :
        /\ IsLogin(r) /\ Done(r) /\ "token" \in DOMAIN req[r].body
        /\ req[r].nInsert = 1

\* C9: a /login or /signup whose provider call failed or answered without token
\* does not change the users table, issues no token and sets no cookie;
\* a /signup whose lookup or insert failed sets no cookie.
C9_FailureLeavesNoTrace ==
    /\ [](\A r \in Requests :
            /\ ((IsLogin(r) \/ IsSignup(r)) /\ ProviderFailed(r)) =>
                  /\ req[r].nInsert = 0 /\ req[r].inserted = 0
                  /\ ~("token" \in DOMAIN req[r].body)
                  /\ req[r].cookie = req[r].cookieIn
            /\ (IsSignup(r) /\ req[r].failed = "db") => req[r].cookie = req[r].cookieIn)
    /\ [][\A r \in Requests :
            (req'[r] # req[r] /\ ProviderFailed(r)') => users' = users]_vars

C9_Witness ==
    \E r1, r2 \in Requests :
        /\ IsSignup(r1) /\ ProviderFailed(r1) /\ req[r1].providerResponse # Undefined
        /\ IsSignup(r2) /\ req[r2].failed = "db" /\ req[r2].nInsert = 1

\* C10: a /login with a valid session token in the auth header and a /signup with
\* a valid session token in the auth cookie are over at once: no provider call,
\* no lookup, no insert, no new token and no new cookie.
C10_AlreadyLoggedIn ==
    \A r \in Requests : AlreadyLoggedIn(r) =>
        /\ Done(r)
        /\ req[r].nProvider = 0 /\ req[r].nSelect = 0 /\ req[r].nInsert = 0
        /\ ~("token" \in DOMAIN req[r].body)
        /\ req[r].cookie = req[r].cookieIn

C10_Witness ==
    \E r \in Requests : IsSignup(r) /\ AlreadyLoggedIn(r) /\ Done(r)

\* C11: for every thrown value handleError returns a status of 400, 401 or 500;
\* an error that is no HTTPError yields 500 and a 401 response yields 401.
C11_HandleErrorStatuses ==
    (api # Undefined /\ "ret" \in DOMAIN api /\ api.thrown # Str("ok")) =>
        /\ api.ret.status \in {400, 401, 500}
        /\ api.thrown # Str("HTTPError") => api.ret.status = 500
        /\ api.responseStatus = 401 => api.ret.status = 401

\* the store holds no session, in memory and in localStorage
LoggedOut(s) ==
    /\ ~s.isLoggedIn /\ s.token = EmptyString /\ s.user = Undefined
    /\ s.localStorage.loggedIn = Str("false")
    /\ s.localStorage.token = EmptyString
    /\ s.localStorage.user = Str("undefined")
\* this step is the return of a call of the ApiClient
ApiReturns == api # Undefined /\ "pending" \in DOMAIN api /\ "ret" \in DOMAIN api'

\* C12: when a request of the ApiClient is answered 401 the auth store is logged
\* out when the call returns, in memory and in localStorage; an answer with any
\* other status, and any other error, leaves the store as it was.
C12_UnauthorizedLogsOut ==
    [][ApiReturns =>
          IF api'.responseStatus = 401 THEN LoggedOut(authStore')
          ELSE authStore' = authStore]_vars

C12_Witness ==
    /\ api # Undefined /\ "ret" \in DOMAIN api
    /\ api.responseStatus = 401 /\ api.wasLoggedIn
    /\ LoggedOut(authStore)

\* C13: a store set up anew from the localStorage of the browser (initStore) holds
\* the user, isLoggedIn and token the store held, after any logins and logouts.
C13_PersistenceRoundTrip ==
    LET s == initStore(authStore.localStorage)
    IN  /\ s.user = authStore.user
        /\ s.isLoggedIn = authStore.isLoggedIn
        /\ s.token = authStore.token

C13_Witness ==
    /\ lastOp = "init"
    /\ authStore.isLoggedIn /\ jwtVerify(authStore.token) /\ authStore.user # Undefined

\* C14: between the operations of the store isLoggedIn is true exactly when the
\* token is not empty and exactly when the user is defined.
C14_SessionFieldsAgree ==
    /\ authStore.isLoggedIn <=> authStore.token # EmptyString
    /\ authStore.isLoggedIn <=> authStore.user # Undefined

C14_Witness ==
    /\ authStore.isLoggedIn /\ authStore.token # EmptyString
    /\ api # Undefined /\ "ret" \in DOMAIN api /\ api.responseStatus = 401

\* C15: after logout() the store stays logged out as long as no login() has been
\* started since: the answer to a login() started before the logout does not
\* log the store in again.
C15_StaysLoggedOut ==
    [][\A r \in stale :
          (/\ awaiting \subseteq stale /\ ~authStore.isLoggedIn
           /\ r \in awaiting /\ r \notin awaiting')
          => ~authStore'.isLoggedIn]_vars

\* the request was answered with the already-logged-in response
AnsweredAlreadyLoggedIn(r) ==
    Done(r) /\ req[r].body = Str("You're already logged in")

\* C16: after /logout has removed a session token, a /login or /signup that
\* presents that token is not answered with the already-logged-in response.
C16_LogoutEndsSession ==
    \A r \in Requests : req[r].afterLogout => ~AnsweredAlreadyLoggedIn(r)

\* C16, amended: /logout removes the auth cookie and nothing else; a session
\* token issued before it still verifies, so a /login presenting it in the auth
\* header and a /signup presenting it as auth cookie are still answered with the
\* already-logged-in response.
C16_LogoutOnlyRemovesCookie ==
    /\ [](\A r \in Requests :
            (req[r].afterLogout /\ AlreadyLoggedIn(r)) =>
                /\ AnsweredAlreadyLoggedIn(r)
                /\ req[r].status = IF IsLogin(r) THEN 204 ELSE 200)
    /\ [][loggedOut' # loggedOut => users' = users]_vars

C16_Witness ==
    \E r1, r2 \in Requests :
        /\ IsLogin(r1) /\ Succeeded(r1)
        /\ IsLogin(r2) /\ req[r2].afterLogout /\ req[r2].auth = req[r1].body.token
        /\ AnsweredAlreadyLoggedIn(r2)
====
